---- MODULE Spec2Model ----
(***************************************************************************)
(* Model of rustracer's core: the Vec3 algebra (src/src/vec3.rs), Ray      *)
(* (src/src/ray.rs) and Hit / Hittable / HittableList                       *)
(* (src/src/surface/hittable.rs).                                          *)
(*                                                                         *)
(* f64 is modelled as a binary floating-point format with the IEEE-754     *)
(* rules (round to nearest, ties to even; overflow to infinity; NaN) but a *)
(* reduced precision and exponent range: MantBits significand bits and     *)
(* exponents 0..MaxExp, the unit being the smallest subnormal.  A finite   *)
(* value is the integer it denotes, +/-infinity are +/-PInf, NaN is NaN.   *)
(* The sign of zero is not kept: IEEE == does not see it.                  *)
(***************************************************************************)
EXTENDS Integers, Sequences, FiniteSets, TLC

VARIABLES
    va, vb, vc, sc, res,                \* operands and result of a Vec3 expression
    in_ray, in_t, in_normal, out_hit,   \* arguments and result of Hit::new
    objects,                            \* the HittableList
    rays, t_ranges,                     \* per query: the arguments of hit
    pos,                                \* per query: position of self.iter()
    pc,                                 \* per query: "call", "loop" or "done"
    closest_so_far, hit_anything,       \* per query: the locals of hit
    calls                               \* per query: the calls made to members

vecVars == <<va, vb, vc, sc, res>>
newVars == <<in_ray, in_t, in_normal, out_hit>>
listVars ==
    <<objects, rays, t_ranges, pos, pc, closest_so_far, hit_anything, calls>>
vars == <<vecVars, newVars, listVars>>

----------------------------------------------------------------------------
(* f64 *)

MantBits == 3
MaxExp == 1

MaxFinite == (2^MantBits - 1) * 2^MaxExp
PInf == MaxFinite + 1
NInf == -PInf
NaN == PInf + 1

Abs(x) == IF x < 0 THEN -x ELSE x
Sgn(x) == IF x < 0 THEN -1 ELSE 1

IsNaN(x) == x = NaN
IsInf(x) == x = PInf \/ x = NInf
IsFinite(x) == ~IsNaN(x) /\ ~IsInf(x)

\* The finite values of the format.
Representable(x) ==
    \E e \in 0..MaxExp : \E m \in 0..(2^MantBits - 1) : Abs(x) = m * 2^e

\* The float nearest to the rational p/q (q > 0): round to nearest, ties to
\* even, overflow to infinity.
RoundRat(p, q) ==
    LET ap == Abs(p)
    IN  IF 2 * ap >= (2 * MaxFinite + 2^MaxExp) * q
        THEN Sgn(p) * PInf
        ELSE LET e == CHOOSE k \in 0..MaxExp :
                          /\ ap < 2^MantBits * 2^k * q
                          /\ \A j \in 0..(k - 1) : ap >= 2^MantBits * 2^j * q
                 Q == q * 2^e
                 m == ap \div Q
                 r == ap % Q
                 up == 2 * r > Q \/ (2 * r = Q /\ m % 2 = 1)
             IN  Sgn(p) * (IF up THEN m + 1 ELSE m) * 2^e

Round(x) == RoundRat(x, 1)

F64Neg(x) == IF IsNaN(x) THEN NaN ELSE -x

F64Add(x, y) ==
    IF IsNaN(x) \/ IsNaN(y) THEN NaN
    ELSE IF IsInf(x) THEN (IF IsInf(y) /\ y # x THEN NaN ELSE x)
    ELSE IF IsInf(y) THEN y
    ELSE Round(x + y)

F64Sub(x, y) == F64Add(x, F64Neg(y))

F64Mul(x, y) ==
    IF IsNaN(x) \/ IsNaN(y) THEN NaN
    ELSE IF IsInf(x) \/ IsInf(y)
         THEN (IF x = 0 \/ y = 0 THEN NaN ELSE Sgn(x) * Sgn(y) * PInf)
    ELSE Round(x * y)

F64Div(x, y) ==
    IF IsNaN(x) \/ IsNaN(y) THEN NaN
    ELSE IF IsInf(x) THEN (IF IsInf(y) THEN NaN ELSE Sgn(x) * Sgn(y) * PInf)
    ELSE IF IsInf(y) THEN 0
    ELSE IF y = 0 THEN (IF x = 0 THEN NaN ELSE Sgn(x) * PInf)
    ELSE RoundRat(Sgn(y) * x, Abs(y))

\* The comparisons of f64: every comparison with NaN is false.
F64Lt(x, y) == ~IsNaN(x) /\ ~IsNaN(y) /\ x < y
F64Le(x, y) == ~IsNaN(x) /\ ~IsNaN(y) /\ x <= y
F64Eq(x, y) == ~IsNaN(x) /\ ~IsNaN(y) /\ x = y

\* $op_symbol applied to two f64.
F64Op(op, x, y) ==
    CASE op = "+" -> F64Add(x, y)
      [] op = "-" -> F64Sub(x, y)
      [] op = "*" -> F64Mul(x, y)
      [] op = "/" -> F64Div(x, y)

OpSymbols == {"+", "-", "*", "/"}

----------------------------------------------------------------------------
(* vec3.rs *)

Vec3New(x, y, z) == [x |-> x, y |-> y, z |-> z]

ZERO == Vec3New(0, 0, 0)

dot(a, b) ==
    F64Add(F64Add(F64Mul(a.x, b.x), F64Mul(a.y, b.y)), F64Mul(a.z, b.z))

\* A sign slip in y: a.x * b.z - a.z * b.x.
crossSignSlip(a, b) ==
    Vec3New(F64Sub(F64Mul(a.y, b.z), F64Mul(a.z, b.y)),
            F64Sub(F64Mul(a.x, b.z), F64Mul(a.z, b.x)),
            F64Sub(F64Mul(a.x, b.y), F64Mul(a.y, b.x)))

cross(a, b) ==
    Vec3New(F64Sub(F64Mul(a.y, b.z), F64Mul(a.z, b.y)),
            F64Sub(F64Mul(a.z, b.x), F64Mul(a.x, b.z)),
            F64Sub(F64Mul(a.x, b.y), F64Mul(a.y, b.x)))

\* A slip in the macro: z is computed from other.y.
RefVecOpRefVecSlip(op, self, other) ==
    Vec3New(F64Op(op, self.x, other.x),
            F64Op(op, self.y, other.y),
            F64Op(op, self.z, other.y))

\* impl_binary_operations: &Vec3 op &Vec3, component by component.
RefVecOpRefVec(op, self, other) ==
    Vec3New(F64Op(op, self.x, other.x),
            F64Op(op, self.y, other.y),
            F64Op(op, self.z, other.z))

\* Vec3 op Vec3, Vec3 op &Vec3, &Vec3 op Vec3: forwarded to &Vec3 op &Vec3.
VecOpVec(op, self, other) == RefVecOpRefVec(op, self, other)

\* &Vec3 op f64.
RefVecOpF64(op, self, other) ==
    Vec3New(F64Op(op, self.x, other),
            F64Op(op, self.y, other),
            F64Op(op, self.z, other))

\* Vec3 op f64: `&self op other`.
VecOpF64(op, self, other) == RefVecOpF64(op, self, other)

\* f64 op &Vec3: `other op self`, the vector moved to the left.
F64OpRefVec(op, self, other) == RefVecOpF64(op, other, self)

\* The scalar kept on the left: (self op other.x, self op other.y, ...).
F64OpVecScalarFirst(op, self, other) ==
    Vec3New(F64Op(op, self, other.x),
            F64Op(op, self, other.y),
            F64Op(op, self, other.z))

\* f64 op Vec3: `&other op self`.
F64OpVec(op, self, other) == RefVecOpF64(op, other, self)

\* impl_unary_operations: -&Vec3, and -Vec3 forwarded to it.
RefVecNeg(self) == Vec3New(F64Neg(self.x), F64Neg(self.y), F64Neg(self.z))

VecNeg(self) == RefVecNeg(self)

\* Component-by-component comparison with the == of f64 (Vec3 derives no
\* PartialEq).
VecEq(a, b) == F64Eq(a.x, b.x) /\ F64Eq(a.y, b.y) /\ F64Eq(a.z, b.z)

----------------------------------------------------------------------------
(* ray.rs *)

RayNew(origin, direction) == [origin |-> origin, direction |-> direction]

at(self, t) == VecOpVec("+", self.origin, F64OpVec("*", t, self.direction))

----------------------------------------------------------------------------
(* surface/hittable.rs: Hit *)

None == [some |-> FALSE]
Some(h) == [some |-> TRUE, hit |-> h]

\* The comparison made inclusive: front_face when the dot product is <= 0.
HitNewInclusive(ray, t, outward_normal) ==
    LET p == at(ray, t)
        front_face == F64Le(dot(ray.direction, outward_normal), 0)
        normal == IF front_face THEN outward_normal ELSE VecNeg(outward_normal)
    IN  [p |-> p, normal |-> normal, t |-> t, front_face |-> front_face]

\* The outward normal stored as given, never negated.
HitNewNoFlip(ray, t, outward_normal) ==
    LET p == at(ray, t)
        front_face == F64Lt(dot(ray.direction, outward_normal), 0)
    IN  [p |-> p, normal |-> outward_normal, t |-> t, front_face |-> front_face]

\* Hit::new.  hittable.rs names the ray's direction `ray.dir`; the field of
\* Ray is `direction`.
HitNew(ray, t, outward_normal) ==
    LET p == at(ray, t)
        front_face == F64Lt(dot(ray.direction, outward_normal), 0)
        normal == IF front_face THEN outward_normal ELSE VecNeg(outward_normal)
    IN  [p |-> p, normal |-> normal, t |-> t, front_face |-> front_face]

----------------------------------------------------------------------------
(* surface/hittable.rs: Hittable and HittableList *)

\* The implementors of Hittable, the members of a list.  The repository
\* defines none, so a member is described by what its hit returns: a surface
\* has intersections at the parameters ts and honours the contract, it
\* answers with its closest intersection inside the range it is asked about;
\* a fixed mock returns the same hit whatever the range.  Either builds its
\* Hit with Hit::new from its outward normal n.
Surface(ts, n) == [kind |-> "surface", ts |-> ts, n |-> n]
Fixed(t0, n) == [kind |-> "fixed", ts |-> {t0}, n |-> n]

Honours(object) == object.kind = "surface"

\* The parameters of ts inside the half-open range start..end.
Inside(ts, start, end) == {x \in ts : F64Le(start, x) /\ F64Lt(x, end)}

MinOf(S) == CHOOSE x \in S : \A y \in S : x <= y

\* object.hit(ray, t_range)
ObjectHit(object, ray, t_range) ==
    LET found == IF Honours(object)
                 THEN Inside(object.ts, t_range.start, t_range.end)
                 ELSE object.ts
    IN  IF found = {} THEN None
        ELSE Some(HitNew(ray, MinOf(found), object.n))

Range(start, end) == [start |-> start, end |-> end]

\* The whole range handed on to every member.
MemberRangeWhole(t_range, closest) == t_range

\* The range a member is asked about: t_range.start..closest_so_far.
MemberRange(t_range, closest) == Range(t_range.start, closest)

\* The best hit replaced only by a hit with a smaller t.
AfterMemberIfCloser(r, closest, best) ==
    IF r.some /\ (~best.some \/ F64Lt(r.hit.t, best.hit.t))
    THEN [closest |-> r.hit.t, best |-> r]
    ELSE [closest |-> closest, best |-> best]

\* The best hit replaced, the range not narrowed.
AfterMemberNoNarrowing(r, closest, best) ==
    IF r.some
    THEN [closest |-> closest, best |-> r]
    ELSE [closest |-> closest, best |-> best]

\* The body of the loop after a member answered r: on Some(hit),
\* closest_so_far = hit.t and hit_anything = Some(hit).
AfterMember(r, closest, best) ==
    IF r.some
    THEN [closest |-> r.hit.t, best |-> r]
    ELSE [closest |-> closest, best |-> best]

\* HittableList::hit as a function: the loop from member i on.
RECURSIVE Traverse(_, _, _, _, _, _)
Traverse(list, ray, t_range, closest, best, i) ==
    IF i > Len(list) THEN best
    ELSE LET r == ObjectHit(list[i], ray, MemberRange(t_range, closest))
             u == AfterMember(r, closest, best)
         IN  Traverse(list, ray, t_range, u.closest, u.best, i + 1)

ListHit(list, ray, t_range) == Traverse(list, ray, t_range, t_range.end, None, 1)

----------------------------------------------------------------------------
(* Vec3 expressions: va, vb, vc stand for a, b, c and sc for the scalar s *)

\* The components the operands of the sums are drawn from: values whose
\* sums are exact (1 + 2), round (8 + 1 is 8) and overflow (8 + 8),
\* infinity and NaN.
SumVals == {1, 2, 8, PInf, NaN}
\* The scalars: 8 * 2 overflows, 0 * infinity is NaN.
SumScalars == {0, 2, 3}
Vecs(vals) == {Vec3New(x, y, z) : x \in vals, y \in vals, z \in vals}

NoRes == [fn |-> "none", op |-> "", val |-> ZERO]

VecIdle == va = ZERO /\ vb = ZERO /\ vc = ZERO /\ sc = 0 /\ res = NoRes
NewIdle ==
    in_ray = RayNew(ZERO, ZERO) /\ in_t = 0 /\ in_normal = ZERO /\ out_hit = None
ListIdle ==
    /\ objects = <<>> /\ rays = <<>> /\ t_ranges = <<>> /\ pos = <<>> /\ pc = <<>>
    /\ closest_so_far = <<>> /\ hit_anything = <<>> /\ calls = <<>>

\* One expression is evaluated on the operands and its value kept in res.
Eval(fn, op, val) ==
    /\ res.fn = "none"
    /\ res' = [fn |-> fn, op |-> op, val |-> val]
    /\ UNCHANGED <<va, vb, newVars, listVars>>

\* a + b
AddAB == Eval("a+b", "+", VecOpVec("+", va, vb)) /\ UNCHANGED <<vc, sc>>
\* (a + b) + c, for a third vector c
AddABC ==
    /\ res.fn = "none"
    /\ \E z \in Vecs(SumVals) :
           /\ vc' = z
           /\ Eval("(a+b)+c", "+", VecOpVec("+", VecOpVec("+", va, vb), z))
    /\ UNCHANGED sc
\* a - a
SubAA == Eval("a-a", "-", VecOpVec("-", va, va)) /\ UNCHANGED <<vc, sc>>
\* s * a, for a scalar s
MulSA ==
    /\ res.fn = "none"
    /\ \E k \in SumScalars :
           /\ sc' = k
           /\ Eval("s*a", "*", F64OpVec("*", k, va))
    /\ UNCHANGED vc

InitSum ==
    /\ va \in Vecs(SumVals) /\ vb \in Vecs(SumVals)
    /\ vc = ZERO /\ sc = 0 /\ res = NoRes
    /\ NewIdle /\ ListIdle

NextSum == AddABC \/ AddAB \/ SubAA \/ MulSA

SpecSum == InitSum /\ [][NextSum]_vars

\* An f64 operation that returns the exact result: no rounding, no overflow,
\* no infinite or NaN operand.
ExactAdd(x, y) == IsFinite(x) /\ IsFinite(y) /\ Representable(x + y)
ExactSub(x, y) == IsFinite(x) /\ IsFinite(y) /\ Representable(x - y)
ExactMul(x, y) == IsFinite(x) /\ IsFinite(y) /\ Representable(x * y)
VecExactAdd(u, v) ==
    ExactAdd(u.x, v.x) /\ ExactAdd(u.y, v.y) /\ ExactAdd(u.z, v.z)
VecNoNaN(v) == ~IsNaN(v.x) /\ ~IsNaN(v.y) /\ ~IsNaN(v.z)
VecFinite(v) == IsFinite(v.x) /\ IsFinite(v.y) /\ IsFinite(v.z)

\* Every addition of (a + b) + c and of a + (b + c) is exact.
SumsExact ==
    /\ VecExactAdd(va, vb)
    /\ VecExactAdd(VecOpVec("+", va, vb), vc)
    /\ VecExactAdd(vb, vc)
    /\ VecExactAdd(va, VecOpVec("+", vb, vc))

\* C6 as stated: for all vectors a, b, c and every scalar s, a + b == b + a,
\* (a + b) + c == a + (b + c), a - a == Vec3::ZERO and s * a == a * s, each
\* compared component by component with the == of f64.
C6_Stated ==
    /\ res.fn = "a+b" => VecEq(res.val, VecOpVec("+", vb, va))
    /\ res.fn = "(a+b)+c" =>
           VecEq(res.val, VecOpVec("+", va, VecOpVec("+", vb, vc)))
    /\ res.fn = "a-a" => VecEq(res.val, ZERO)
    /\ res.fn = "s*a" => VecEq(res.val, VecOpF64("*", va, sc))

\* C6 amended: a + b == b + a when no component of a + b is NaN;
\* (a + b) + c == a + (b + c) when every addition involved is exact;
\* a - a == Vec3::ZERO when every component of a is finite;
\* s * a == a * s when no component of s * a is NaN.
C6_Amended ==
    /\ res.fn = "a+b" /\ VecNoNaN(res.val) =>
           VecEq(res.val, VecOpVec("+", vb, va))
    /\ res.fn = "(a+b)+c" /\ SumsExact =>
           VecEq(res.val, VecOpVec("+", va, VecOpVec("+", vb, vc)))
    /\ res.fn = "a-a" /\ VecFinite(va) => VecEq(res.val, ZERO)
    /\ res.fn = "s*a" /\ VecNoNaN(res.val) =>
           VecEq(res.val, VecOpF64("*", va, sc))

\* (a + b) + c was evaluated on operands that differ from axis to axis and
\* whose additions are all exact.
C6_Witness ==
    /\ res.fn = "(a+b)+c" /\ SumsExact
    /\ va.x # va.y /\ vb.y # vb.z

----------------------------------------------------------------------------
(* dot and cross *)

\* Components whose products are exact (2 * 3) and round (3 * 3 is 8),
\* infinity and NaN.
ProdVals == {-1, 0, 2, 3, PInf, NaN}

\* dot(a, b)
DotAB == Eval("dot(a,b)", "", dot(va, vb)) /\ UNCHANGED <<vc, sc>>
\* cross(a, b)
CrossAB == Eval("cross(a,b)", "", cross(va, vb)) /\ UNCHANGED <<vc, sc>>
\* dot(a, cross(a, b))
DotACrossAB ==
    Eval("dot(a,cross(a,b))", "", dot(va, cross(va, vb))) /\ UNCHANGED <<vc, sc>>
\* -a
NegA == Eval("-a", "-", VecNeg(va)) /\ UNCHANGED <<vc, sc>>

InitProd ==
    /\ va \in Vecs(ProdVals) /\ vb \in Vecs(ProdVals)
    /\ vc = ZERO /\ sc = 0 /\ res = NoRes
    /\ NewIdle /\ ListIdle

NextProd == DotACrossAB \/ DotAB \/ CrossAB \/ NegA

SpecProd == InitProd /\ [][NextProd]_vars

\* Every operation of cross(u, v), and of dot(u, v), is exact.
CrossExact(u, v) ==
    /\ ExactMul(u.y, v.z) /\ ExactMul(u.z, v.y) /\ ExactSub(u.y * v.z, u.z * v.y)
    /\ ExactMul(u.z, v.x) /\ ExactMul(u.x, v.z) /\ ExactSub(u.z * v.x, u.x * v.z)
    /\ ExactMul(u.x, v.y) /\ ExactMul(u.y, v.x) /\ ExactSub(u.x * v.y, u.y * v.x)
DotExact(u, v) ==
    /\ ExactMul(u.x, v.x) /\ ExactMul(u.y, v.y) /\ ExactMul(u.z, v.z)
    /\ ExactAdd(u.x * v.x, u.y * v.y)
    /\ ExactAdd(u.x * v.x + u.y * v.y, u.z * v.z)

\* C7 as stated: for all vectors a and b, dot(a, b) == dot(b, a),
\* cross(a, b) == -cross(b, a) component by component, and
\* dot(a, cross(a, b)) == 0.
C7_Stated ==
    /\ res.fn = "dot(a,b)" => F64Eq(res.val, dot(vb, va))
    /\ res.fn = "cross(a,b)" => VecEq(res.val, VecNeg(cross(vb, va)))
    /\ res.fn = "dot(a,cross(a,b))" => F64Eq(res.val, 0)

\* C7 amended: dot(a, b) == dot(b, a) when dot(a, b) is not NaN;
\* cross(a, b) == -cross(b, a) when no component of cross(a, b) is NaN;
\* dot(a, cross(a, b)) == 0 when every multiplication, subtraction and
\* addition involved is exact.
C7_Amended ==
    /\ res.fn = "dot(a,b)" /\ ~IsNaN(res.val) => F64Eq(res.val, dot(vb, va))
    /\ res.fn = "cross(a,b)" /\ VecNoNaN(res.val) =>
           VecEq(res.val, VecNeg(cross(vb, va)))
    /\ res.fn = "dot(a,cross(a,b))" /\ CrossExact(va, vb)
           /\ DotExact(va, cross(va, vb)) => F64Eq(res.val, 0)

\* dot(a, cross(a, b)) was evaluated exactly on a and b that span a plane:
\* the cross product is not zero and the products cancel.
C7_Witness ==
    /\ res.fn = "dot(a,cross(a,b))"
    /\ CrossExact(va, vb) /\ DotExact(va, cross(va, vb))
    /\ cross(va, vb).x # 0 /\ cross(va, vb).y # 0 /\ cross(va, vb).z # 0

----------------------------------------------------------------------------
(* scalar forms *)

ScalVals == {-2, 0, 1, 3, PInf, NaN}

\* v op s
VecOpF64Step ==
    \E op \in OpSymbols :
        Eval("Vec3 op f64", op, VecOpF64(op, va, sc)) /\ UNCHANGED <<vc, sc>>
\* &v op s
RefVecOpF64Step ==
    \E op \in OpSymbols :
        Eval("&Vec3 op f64", op, RefVecOpF64(op, va, sc)) /\ UNCHANGED <<vc, sc>>
\* s op v
F64OpVecStep ==
    \E op \in OpSymbols :
        Eval("f64 op Vec3", op, F64OpVec(op, sc, va)) /\ UNCHANGED <<vc, sc>>
\* s op &v
F64OpRefVecStep ==
    \E op \in OpSymbols :
        Eval("f64 op &Vec3", op, F64OpRefVec(op, sc, va)) /\ UNCHANGED <<vc, sc>>

InitScalar ==
    /\ va \in Vecs(ScalVals) /\ sc \in ScalVals
    /\ vb = ZERO /\ vc = ZERO /\ res = NoRes
    /\ NewIdle /\ ListIdle

NextScalar == VecOpF64Step \/ RefVecOpF64Step \/ F64OpVecStep \/ F64OpRefVecStep

SpecScalar == InitScalar /\ [][NextScalar]_vars

\* C10: for op in {+, -, *, /}, every scalar s and every vector v, `s op v`
\* (v owned or borrowed) returns the vector `v op s` returns, that is
\* (v.x op s, v.y op s, v.z op s); so s - v is v - s and s / v is v / s.
C10_ScalarLeftIsVecOpScalar ==
    res.fn \in {"f64 op Vec3", "f64 op &Vec3"} =>
        /\ res.val = Vec3New(F64Op(res.op, va.x, sc),
                             F64Op(res.op, va.y, sc),
                             F64Op(res.op, va.z, sc))
        /\ res.val = VecOpF64(res.op, va, sc)

\* s - v was evaluated where v - s differs from the difference s - v on
\* every axis.
C10_Witness ==
    /\ res.fn = "f64 op Vec3" /\ res.op = "-"
    /\ res.val.x # F64Sub(sc, va.x)
    /\ res.val.y # F64Sub(sc, va.y)
    /\ res.val.z # F64Sub(sc, va.z)

----------------------------------------------------------------------------
(* Hit::new *)

\* Directions: 0 * infinity and infinity - infinity make the dot product NaN.
DirVals == {-1, 0, 2, PInf}
\* Outward normals, not only unit ones: Hit::new takes what it is given.
NormalVals == {-1, 0, 1, NaN}
Origins == {ZERO, Vec3New(1, -2, 3)}
NewTs == {-1, 0, 3}

\* Hit::new(&in_ray, in_t, in_normal)
New ==
    /\ ~out_hit.some
    /\ out_hit' = Some(HitNew(in_ray, in_t, in_normal))
    /\ UNCHANGED <<in_ray, in_t, in_normal, vecVars, listVars>>

InitNew ==
    /\ in_ray \in {RayNew(o, d) : o \in Origins, d \in Vecs(DirVals)}
    /\ in_t \in NewTs
    /\ in_normal \in Vecs(NormalVals)
    /\ out_hit = None
    /\ VecIdle /\ ListIdle

NextNew == New

SpecNew == InitNew /\ [][NextNew]_vars

\* C3: Hit::new(ray, t, n) returns p = ray.at(t) and the given t; front_face
\* = true and normal = n when dot(ray.direction, n) < 0; front_face = false
\* and normal = -n otherwise, the case dot(ray.direction, n) = 0 included.
C3_HitNewFrontFace ==
    out_hit.some =>
        LET h == out_hit.hit
            d == dot(in_ray.direction, in_normal)
        IN  /\ h.p = VecOpVec("+", in_ray.origin,
                              VecOpF64("*", in_ray.direction, in_t))
            /\ h.t = in_t
            /\ F64Lt(d, 0) => h.front_face /\ h.normal = in_normal
            /\ ~F64Lt(d, 0) => ~h.front_face /\ h.normal = VecNeg(in_normal)
            /\ F64Eq(d, 0) => ~h.front_face /\ h.normal = VecNeg(in_normal)

\* A Hit was built where the ray grazes the surface: the dot product is 0,
\* neither vector is zero, and the normal was negated.
C3_Witness ==
    /\ out_hit.some
    /\ F64Eq(dot(in_ray.direction, in_normal), 0)
    /\ in_normal # ZERO /\ in_ray.direction # ZERO
    /\ out_hit.hit.normal # in_normal

\* C4 as stated: for every ray, t and outward normal n the Hit satisfies
\* dot(ray.direction, hit.normal) <= 0, and front_face is true exactly when
\* hit.normal equals n.
C4_Stated ==
    out_hit.some =>
        LET h == out_hit.hit
        IN  /\ F64Le(dot(in_ray.direction, h.normal), 0)
            /\ h.front_face <=> VecEq(h.normal, in_normal)

\* C4 amended: dot(ray.direction, hit.normal) <= 0 whenever
\* dot(ray.direction, n) is not NaN, and front_face is true exactly when
\* hit.normal equals n whenever n is not the zero vector.
C4_Amended ==
    out_hit.some =>
        LET h == out_hit.hit
        IN  /\ ~IsNaN(dot(in_ray.direction, in_normal)) =>
                   F64Le(dot(in_ray.direction, h.normal), 0)
            /\ ~VecEq(in_normal, ZERO) =>
                   (h.front_face <=> VecEq(h.normal, in_normal))

\* A Hit was built from a ray that leaves the surface: the outward normal
\* points along the ray and is stored negated.
C4_Witness ==
    /\ out_hit.some
    /\ F64Lt(0, dot(in_ray.direction, in_normal))
    /\ ~out_hit.hit.front_face
    /\ F64Lt(dot(in_ray.direction, out_hit.hit.normal), 0)

----------------------------------------------------------------------------
(* HittableList::hit, one step at a time, for each query in flight *)

MaxLen == 3
NumQueries == 2

N1 == Vec3New(0, 0, 1)
N2 == Vec3New(0, 1, 0)
ListTs == {2, 7}
Members ==
    {Surface(ts, n) : ts \in SUBSET ListTs, n \in {N1, N2}}
        \cup {Fixed(t0, N1) : t0 \in ListTs}
Lists(members) == UNION {[1..k -> members] : k \in 0..MaxLen}

Ray1 == RayNew(ZERO, Vec3New(0, 0, -1))
Ray2 == RayNew(Vec3New(1, 0, 0), Vec3New(0, 1, 1))
Ranges == {Range(lo, hi) : lo \in {0, 3}, hi \in {1, 10, PInf, NaN}}

Queries == DOMAIN pc

\* The closest_so_far of the first query read by every query.
ClosestSoFarOfFirst(q) == closest_so_far[1]

\* The closest_so_far query q reads: its own local.
ClosestSoFar(q) == closest_so_far[q]

\* hit is entered: hit_anything = None, closest_so_far = t_range.end.
Call(q) ==
    /\ pc[q] = "call"
    /\ hit_anything' = [hit_anything EXCEPT ![q] = None]
    /\ closest_so_far' = [closest_so_far EXCEPT ![q] = t_ranges[q].end]
    /\ pos' = [pos EXCEPT ![q] = 1]
    /\ pc' = [pc EXCEPT ![q] = "loop"]
    /\ UNCHANGED <<objects, rays, t_ranges, calls, vecVars, newVars>>

\* One iteration of `for object in self.iter()`.
Visit(q) ==
    /\ pc[q] = "loop"
    /\ pos[q] <= Len(objects)
    /\ LET asked == MemberRange(t_ranges[q], ClosestSoFar(q))
           r == ObjectHit(objects[pos[q]], rays[q], asked)
           u == AfterMember(r, ClosestSoFar(q), hit_anything[q])
       IN  /\ closest_so_far' = [closest_so_far EXCEPT ![q] = u.closest]
           /\ hit_anything' = [hit_anything EXCEPT ![q] = u.best]
           /\ calls' = [calls EXCEPT ![q] =
                  Append(@, [member |-> pos[q], asked |-> asked, ret |-> r])]
    /\ pos' = [pos EXCEPT ![q] = pos[q] + 1]
    /\ UNCHANGED <<objects, rays, t_ranges, pc, vecVars, newVars>>

\* The iterator is exhausted: hit returns hit_anything.
Return(q) ==
    /\ pc[q] = "loop"
    /\ pos[q] > Len(objects)
    /\ pc' = [pc EXCEPT ![q] = "done"]
    /\ UNCHANGED <<objects, rays, t_ranges, pos, closest_so_far, hit_anything,
                   calls, vecVars, newVars>>

\* The locals of n queries that have not entered hit yet.
NotCalled(n) ==
    /\ pc = [q \in 1..n |-> "call"]
    /\ pos = [q \in 1..n |-> 0]
    /\ closest_so_far = [q \in 1..n |-> 0]
    /\ hit_anything = [q \in 1..n |-> None]
    /\ calls = [q \in 1..n |-> <<>>]

\* One query against any list.
Init ==
    /\ objects \in Lists(Members)
    /\ rays \in [1..1 -> {Ray1, Ray2}]
    /\ t_ranges \in [1..1 -> Ranges]
    /\ NotCalled(1)
    /\ VecIdle /\ NewIdle

Next == \E q \in Queries : Call(q) \/ Visit(q) \/ Return(q)

Spec == Init /\ [][Next]_vars

\* Several queries in flight against one list, their steps interleaved.
ConcMembers == {Surface({2, 7}, N1), Surface({2}, N2), Fixed(7, N1)}
ConcRanges == {Range(0, 10), Range(3, 10)}

InitConc ==
    /\ objects \in Lists(ConcMembers)
    /\ rays = [q \in 1..NumQueries |-> Ray2]
    /\ t_ranges \in [1..NumQueries -> ConcRanges]
    /\ NotCalled(NumQueries)
    /\ VecIdle /\ NewIdle

SpecConc == InitConc /\ [][Next]_vars

Done(q) == pc[q] = "done"
AllHonour == \A i \in DOMAIN objects : Honours(objects[i])

\* Every intersection of every member inside the range of query q.
AllInside(q) ==
    UNION {Inside(objects[i].ts, t_ranges[q].start, t_ranges[q].end) :
               i \in DOMAIN objects}

\* C1: when every member honours the contract, hit returns None exactly
\* when no member has an intersection with t_min <= t < t_max (so for the
\* empty list), and otherwise a hit whose t is the minimum over all members'
\* intersections inside the range.
C1_ClosestOfAll ==
    \A q \in Queries :
        Done(q) /\ AllHonour =>
            /\ ~hit_anything[q].some <=> AllInside(q) = {}
            /\ hit_anything[q].some =>
                   F64Eq(hit_anything[q].hit.t, MinOf(AllInside(q)))

\* The scenario of the spec: members at t = 2 and t = 7 asked about
\* [3, 10) returned the hit at t = 7.
C1_Witness ==
    /\ Done(1)
    /\ Len(objects) = 2 /\ objects[1].ts = {2} /\ objects[2].ts = {7}
    /\ AllHonour
    /\ t_ranges[1] = Range(3, 10)
    /\ hit_anything[1].some /\ hit_anything[1].hit.t = 7

\* The lists that hold the members of list in another order.
Reorderings(list) ==
    {[i \in DOMAIN list |-> list[f[i]]] : f \in Permutations(DOMAIN list)}

\* The members whose closest intersection in the range of query q is the
\* closest of all.
Closest(q) ==
    {i \in DOMAIN objects :
        MinOf(AllInside(q)) \in
            Inside(objects[i].ts, t_ranges[q].start, t_ranges[q].end)}

\* C2 as stated: a list that holds the same members in another order
\* returns the same outcome, None or a hit equal in t, p, normal and
\* front_face, also when two members intersect at the same t.  (Stated here
\* for members that honour the contract, the case the spec argues for.)
C2_Stated ==
    Done(1) /\ AllHonour =>
        \A other \in Reorderings(objects) :
            ListHit(other, rays[1], t_ranges[1]) = hit_anything[1]

\* C2 amended: for members that honour the contract, a list that holds the
\* same members in another order returns None when this one does and
\* otherwise a hit with the same t; the hits are equal in every field when
\* only one member has its closest intersection at that t.
C2_Amended ==
    Done(1) /\ AllHonour =>
        \A other \in Reorderings(objects) :
            LET r == ListHit(other, rays[1], t_ranges[1])
                h == hit_anything[1]
            IN  /\ r.some <=> h.some
                /\ h.some => r.hit.t = h.hit.t
                /\ h.some /\ Cardinality(Closest(1)) = 1 => r = h

\* The narrowing case of the spec with the closer member last: a member
\* whose closest intersection is at 7 is followed by one at 2, and 2 wins.
C2_Witness ==
    /\ Done(1) /\ AllHonour
    /\ Len(objects) = 2
    /\ objects[1].ts = {7} /\ objects[2].ts = {2, 7}
    /\ objects[1].n # objects[2].n
    /\ t_ranges[1] = Range(0, 10)
    /\ hit_anything[1].some /\ hit_anything[1].hit.t = 2
    /\ hit_anything[1].hit.normal = VecNeg(objects[2].n)

\* C5: under every interleaving of the steps of concurrent queries, no step
\* changes the list, its members, the rays or the ranges, and a query that
\* returns returns what HittableList::hit returns when run alone.
C5_ConcurrentQueries ==
    [][/\ objects' = objects /\ rays' = rays /\ t_ranges' = t_ranges
       /\ \A q \in Queries :
              pc'[q] = "done" =>
                  hit_anything'[q] = ListHit(objects, rays[q], t_ranges[q])]_vars

\* Two queries with different ranges are both past their first member, have
\* narrowed to different hits, and one of them has returned.
C5_Witness ==
    /\ Len(objects) >= 2
    /\ pc[1] = "done" /\ pc[2] = "loop" /\ pos[2] = 2
    /\ t_ranges[1] # t_ranges[2]
    /\ hit_anything[1].some /\ hit_anything[2].some
    /\ closest_so_far[1] # closest_so_far[2]

\* C8: every member is asked exactly once, in list order, with no early
\* exit; the lower bound is always t_min; the first upper bound is t_max;
\* and when members honour the range they are asked about, the upper bound
\* never increases and strictly decreases after every member that hits.
C8_Traversal ==
    \A q \in Queries :
        LET cs == calls[q]
            EndAfter(k) ==
                IF k < Len(cs) THEN cs[k + 1].asked.end ELSE closest_so_far[q]
        IN  /\ \A k \in DOMAIN cs : cs[k].member = k
            /\ pc[q] = "loop" => Len(cs) = pos[q] - 1
            /\ Done(q) => Len(cs) = Len(objects)
            /\ \A k \in DOMAIN cs : cs[k].asked.start = t_ranges[q].start
            /\ Len(cs) >= 1 => cs[1].asked.end = t_ranges[q].end
            /\ AllHonour =>
                   \A k \in DOMAIN cs :
                       /\ ~F64Lt(cs[k].asked.end, EndAfter(k))
                       /\ cs[k].ret.some => F64Lt(EndAfter(k), cs[k].asked.end)

\* A traversal went on after a hit: the first member hit at 7, the second
\* was asked about [t_min, 7) and hit at 2, and a third member was asked
\* about [t_min, 2).
C8_Witness ==
    /\ Done(1) /\ AllHonour
    /\ Len(calls[1]) = 3
    /\ calls[1][1].ret.some /\ calls[1][2].ret.some
    /\ calls[1][2].asked.end = 7 /\ calls[1][3].asked.end = 2

\* The last answer of a member of query q that was Some.
LastSome(q) ==
    LET hits == {k \in DOMAIN calls[q] : calls[q][k].ret.some}
    IN  IF hits = {} THEN None
        ELSE calls[q][CHOOSE k \in hits : \A j \in hits : j <= k].ret

\* C9: for arbitrary members, those that ignore the range they are asked
\* about included, hit returns the hit of the last member in list order that
\* returned Some, and None when every member returned None.
C9_LastSomeWins ==
    \A q \in Queries : Done(q) => hit_anything[q] = LastSome(q)

\* Mocks that ignore the range: the result is neither the smallest t that
\* was returned nor inside [t_min, t_max).
C9_Witness ==
    /\ Done(1)
    /\ hit_anything[1].some
    /\ ~F64Lt(hit_anything[1].hit.t, t_ranges[1].end)
    /\ \E k \in DOMAIN calls[1] :
           /\ calls[1][k].ret.some
           /\ F64Lt(calls[1][k].ret.hit.t, hit_anything[1].hit.t)

====
